---- MODULE Spec2Model ----
(***************************************************************************)
(* The (M, N) periodic-review inventory simulation of src/simulation.py    *)
(* (simulate_policy) as a state machine.                                   *)
(*                                                                         *)
(* One behaviour is one call of simulate_policy, or two calls with the     *)
(* same arguments and seed (SpecTwice).  The arguments are chosen in Init. *)
(* Money is kept in whole cost units: the code's floats hold these values  *)
(* exactly, and the one true division (line 180) is kept as an exact       *)
(* fraction.  The seeded generator is a fixed sequence of raw variates;    *)
(* it is revealed as it is consumed (stream) and read again from its first *)
(* element by every generator built from the same seed.                    *)
(***************************************************************************)
EXTENDS Integers, Sequences, FiniteSets, TLC

(***************************** bounds **************************************)
\* Simulated horizon: N * num_cycles <= MaxDays.
MaxDays == 4
\* Order-up-to levels 0..MaxM.
MaxM == 3
\* Initial on_hand, outstanding_qty and lead_remaining range over 0..MaxInit.
MaxInit == 1
\* The scenario runs: order-up-to levels 0..ScenarioMaxM and an initial
\* on_hand of 0..ScenarioMaxOnHand, with nothing outstanding.
ScenarioMaxM == 7
ScenarioMaxOnHand == 5

(************************ program constants ********************************)
\* DEFAULT_COSTS of src/config.py.
DEFAULT_HOLDING_COST == 20
DEFAULT_SHORTAGE_COST == 10
DEFAULT_UNIT_COST == 50
DEFAULT_ORDERING_COST == 10

(***************************** helpers *************************************)
RECURSIVE SumSeq(_)
SumSeq(s) == IF s = <<>> THEN 0 ELSE s[1] + SumSeq(Tail(s))

Min(a, b) == IF a <= b THEN a ELSE b
Max(a, b) == IF a >= b THEN a ELSE b

\* An Optional value: None, or Some(x) that holds x.
None == <<>>
Some(x) == <<x>>
Get(o) == o[1]

(*************************** data types ************************************)
CostParameters(h, s, u, o) ==
    [holding_cost |-> h, shortage_cost |-> s, unit_cost |-> u, ordering_cost |-> o]

InitialState(oh, oq, lr) ==
    [on_hand |-> oh, outstanding_qty |-> oq, lead_remaining |-> lr]

\* Probabilities are integer weights: a weight w is the probability
\* w / (sum of the weights).
DiscreteDistributions(dv, dp, lv, lp) ==
    [demand_values |-> dv, demand_probs |-> dp, lead_values |-> lv, lead_probs |-> lp]

(************************* the sampler *************************************)
\* The cumulative distribution Generator.choice builds from p.
Cdf(probs, i) == SumSeq(SubSeq(probs, 1, i))

\* The raw variates one draw can consume: a uniform variate, in units of
\* 1 / (sum of the weights).
RawRange(probs) == 0 .. (Cdf(probs, Len(probs)) - 1)

\* rng.choice(values, p=probs): the value whose cdf interval holds the
\* uniform variate u.
SampleFromDiscrete(values, probs, u) ==
    values[CHOOSE i \in 1..Len(values) : Cdf(probs, i - 1) <= u /\ u < Cdf(probs, i)]

(**************************** state ****************************************)
VARIABLES
    M, N, num_cycles, costs, initial_state, distributions,  \* the arguments
    stream,           \* the raw variates of the seed's generator, as revealed
    rng_pos,          \* how many of them this call's rng has consumed
    pc,               \* "call", "loop", "done"
    num_days, on_hand, outstanding_qty, lead_remaining,
    day, records, total_cost,
    audit,            \* intermediate values of the last simulated day
    result,           \* what the call returned, or None
    run, previous     \* the call's number, and the previous call's result

args == <<M, N, num_cycles, costs, initial_state, distributions>>
locals == <<num_days, on_hand, outstanding_qty, lead_remaining, day, records, total_cost>>
vars == <<args, stream, rng_pos, pc, locals, audit, result, run, previous>>

(********************** the steps of one day *******************************)
\* Mutants of step 1: the order is received a day early; the order is
\* received but stays outstanding.
ArrivalDayEarly(oh, oq, lr) ==
    IF lr <= 1 /\ oq > 0
    THEN [incoming_today |-> oq, on_hand |-> oh + oq, outstanding_qty |-> 0]
    ELSE [incoming_today |-> 0, on_hand |-> oh, outstanding_qty |-> oq]
ArrivalKeepsOrder(oh, oq, lr) ==
    IF lr = 0 /\ oq > 0
    THEN [incoming_today |-> oq, on_hand |-> oh + oq, outstanding_qty |-> oq]
    ELSE [incoming_today |-> 0, on_hand |-> oh, outstanding_qty |-> oq]

\* 1) Receive the outstanding order if its lead time has expired.
Arrival(oh, oq, lr) ==
    IF lr = 0 /\ oq > 0
    THEN [incoming_today |-> oq, on_hand |-> oh + oq, outstanding_qty |-> 0]
    ELSE [incoming_today |-> 0, on_hand |-> oh, outstanding_qty |-> oq]

\* Mutants of step 3: sales not limited by the stock; a shortage that may be
\* negative.
SalesNotLimited(oh, demand) == demand
ShortageNotClamped(oh, demand) == demand - oh

\* 3) Sales, shortage quantity and ending inventory.
ComputeSales(oh, demand) == Min(oh, demand)
ComputeShortageQty(oh, demand) == Max(demand - oh, 0)
ComputeEndingInventory(oh, sales) == oh - sales

\* 4) Holding and shortage cost of the day.
ComputeHoldingCost(ending_inventory, c) == ending_inventory * c.holding_cost
ComputeShortageCost(shortage_qty, c) == shortage_qty * c.shortage_cost

\* Mutants of step 5: days counted from 0.
CycleOfFromZero(d, n) == (d \div n) + 1
IsReviewDayFromZero(d, n) == (d - 1) % n = 0

\* The cycle a day belongs to, and 5) whether it is a review day.
CycleOf(d, n) == ((d - 1) \div n) + 1
IsReviewDay(d, n) == d % n = 0

\* Mutants of step 6: no check for an order in flight; an order at
\* ending_inventory = M too.
PlacesOrderInFlight(is_review_day, ending_inventory, m, oq) ==
    is_review_day /\ ending_inventory < m
PlacesOrderAtM(is_review_day, ending_inventory, m, oq) ==
    is_review_day /\ ending_inventory <= m /\ oq = 0

\* Mutants of step 6: the unit cost charged once, whatever the quantity; an
\* order of M units, whatever is in stock.
PurchasingCostPerOrder(order_qty, c) == c.unit_cost
OrderQtyIsM(m, ending_inventory) == m

\* 6) The ordering decision and the order it places.
PlacesOrder(is_review_day, ending_inventory, m, oq) ==
    is_review_day /\ ending_inventory < m /\ oq = 0
ComputeOrderQty(m, ending_inventory) == m - ending_inventory
ComputePurchasingCost(order_qty, c) == order_qty * c.unit_cost
ComputeOrderingCost(c) == c.ordering_cost

\* Mutant of step 7: the lead time is never counted down.
LeadNotDecremented(oq, lr) == lr

\* Mutant of step 7: the count-down does not stop at zero.
LeadDecrementBelowZero(oq, lr) == IF oq > 0 THEN lr - 1 ELSE lr

\* 7) Decrease the lead time of an outstanding order.
LeadDecrement(oq, lr) == IF oq > 0 /\ lr > 0 THEN lr - 1 ELSE lr

\* Mutant of step 9: the ordering fee is left out of the day's total.
DayCostWithoutOrdering(holding, shortage, purchasing, ordering) ==
    holding + shortage + purchasing

\* 9) The total cost of the day.
ComputeDayCost(holding, shortage, purchasing, ordering) ==
    holding + shortage + purchasing + ordering

\* total_cost / num_cycles, a true division, as an exact fraction.
AvgCostPerCycle(total, cycles) == [num |-> total, den |-> cycles]

\* Mutant: the lead time is sampled every day, before the ordering decision.
RawsAlwaysBoth(placed, u, v) == <<u, v>>

\* The raw variates a day takes from the generator, in call order: one for
\* the demand (lines 107-111), then one for the lead time if an order is
\* placed (lines 135-139).
RawsConsumed(placed, u, v) == IF placed THEN <<u, v>> ELSE <<u>>

\* The whole body of the loop for day d: the day's record, the state carried
\* to the next day and the intermediate values.  u is the raw variate of the
\* demand draw, v that of the lead-time draw (consumed only by an order).
DayStep(d, oh, oq, lr, u, v) ==
    LET arr == Arrival(oh, oq, lr)
        on_hand_start == arr.on_hand
        demand == SampleFromDiscrete(distributions.demand_values,
                                     distributions.demand_probs, u)
        sales == ComputeSales(arr.on_hand, demand)
        shortage_qty == ComputeShortageQty(arr.on_hand, demand)
        ending_inventory == ComputeEndingInventory(arr.on_hand, sales)
        holding == ComputeHoldingCost(ending_inventory, costs)
        shortage == ComputeShortageCost(shortage_qty, costs)
        is_review_day == IsReviewDay(d, N)
        placed == PlacesOrder(is_review_day, ending_inventory, M, arr.outstanding_qty)
        order_qty == IF placed THEN ComputeOrderQty(M, ending_inventory) ELSE 0
        lead_time_assigned ==
            IF placed
            THEN Some(SampleFromDiscrete(distributions.lead_values,
                                         distributions.lead_probs, v))
            ELSE None
        oq2 == IF placed THEN order_qty ELSE arr.outstanding_qty
        lr2 == IF placed THEN Get(lead_time_assigned) ELSE lr
        purchasing == IF placed THEN ComputePurchasingCost(order_qty, costs) ELSE 0
        ordering == IF placed THEN ComputeOrderingCost(costs) ELSE 0
        lr3 == LeadDecrement(oq2, lr2)
        day_cost == ComputeDayCost(holding, shortage, purchasing, ordering)
    IN  [record |->
            [Day |-> d,
             Cycle |-> CycleOf(d, N),
             OnHandStart |-> on_hand_start,
             IncomingToday |-> arr.incoming_today,
             Demand |-> demand,
             Sales |-> sales,
             EndingInventory |-> ending_inventory,
             ShortageQty |-> shortage_qty,
             HoldingCost |-> holding,
             ShortageCost |-> shortage,
             OrderQty |-> order_qty,
             LeadTimeNewOrder |-> lead_time_assigned,
             LeadRemainingEnd |-> lr3,
             PurchasingCost |-> purchasing,
             OrderingCost |-> ordering,
             TotalCostDay |-> day_cost],
         on_hand |-> ending_inventory,
         outstanding_qty |-> oq2,
         lead_remaining |-> lr3,
         audit |->
            [day |-> d,
             on_hand_before |-> oh,
             outstanding_before |-> oq,
             lead_before |-> lr,
             outstanding_at_decision |-> arr.outstanding_qty,
             is_review_day |-> is_review_day,
             placed |-> placed,
             lead_before_decrement |-> lr2,
             draws |-> IF placed THEN <<"demand", "lead">> ELSE <<"demand">>],
         raws |-> RawsConsumed(placed, u, v)]

(**************************** the generator ********************************)
\* The variates raws are what the generator yields from position pos on:
\* they repeat what the seed's generator has already been seen to yield.
Yields(pos, raws) ==
    \A i \in 1..Len(raws) : pos + i <= Len(stream) => stream[pos + i] = raws[i]

Revealed(pos, raws) ==
    IF pos + Len(raws) > Len(stream) THEN SubSeq(stream, 1, pos) \o raws ELSE stream

(***************************** actions *************************************)
NoAudit == [day |-> 0]

\* Line 83: a generator built from the seed starts at the first variate.
\* Mutant: one generator shared by the calls, which goes on where it was.
RngPosShared == rng_pos
RngPosAtCall == 0

\* Lines 83-92: build the generator from the seed and copy the initial state.

Call ==
    /\ pc = "call"
    /\ rng_pos' = RngPosAtCall
    /\ num_days' = N * num_cycles
    /\ on_hand' = initial_state.on_hand
    /\ outstanding_qty' = initial_state.outstanding_qty
    /\ lead_remaining' = initial_state.lead_remaining
    /\ records' = <<>>
    /\ total_cost' = 0
    /\ day' = 0
    /\ audit' = NoAudit
    /\ pc' = "loop"
    /\ UNCHANGED <<args, stream, result, run, previous>>

\* Lines 94-177: one iteration of the loop over the days.
SimulateDay ==
    /\ pc = "loop"
    /\ day < num_days
    /\ \E u \in RawRange(distributions.demand_probs),
          v \in RawRange(distributions.lead_probs) :
        LET s == DayStep(day + 1, on_hand, outstanding_qty, lead_remaining, u, v)
        IN  /\ (~s.audit.placed) => v = 0
            /\ Yields(rng_pos, s.raws)
            /\ stream' = Revealed(rng_pos, s.raws)
            /\ rng_pos' = rng_pos + Len(s.raws)
            /\ day' = day + 1
            /\ on_hand' = s.on_hand
            /\ outstanding_qty' = s.outstanding_qty
            /\ lead_remaining' = s.lead_remaining
            /\ total_cost' = total_cost + s.record.TotalCostDay
            /\ records' = Append(records, s.record)
            /\ audit' = s.audit
    /\ UNCHANGED <<args, pc, num_days, result, run, previous>>

\* Lines 179-181: the loop is over; build the table and the average.
Return ==
    /\ pc = "loop"
    /\ day >= num_days
    /\ result' = Some([df |-> records,
                       total_cost |-> total_cost,
                       avg_cost_per_cycle |-> AvgCostPerCycle(total_cost, num_cycles)])
    /\ pc' = "done"
    /\ UNCHANGED <<args, stream, rng_pos, locals, audit, run, previous>>

\* The caller calls simulate_policy again, with the same arguments and seed.
CallAgain ==
    /\ pc = "done"
    /\ run = 1
    /\ previous' = result
    /\ result' = None
    /\ run' = 2
    /\ pc' = "call"
    /\ UNCHANGED <<args, stream, rng_pos, locals, audit>>

(************************** the arguments **********************************)
CostChoices ==
    { CostParameters(DEFAULT_HOLDING_COST, DEFAULT_SHORTAGE_COST,
                     DEFAULT_UNIT_COST, DEFAULT_ORDERING_COST) }

DemandChoices ==
    { <<(<<0>>), (<<2>>)>>,
      <<(<<1, 3>>), (<<1, 1>>)>> }

LeadChoices ==
    { <<(<<1>>), (<<2>>)>>,
      <<(<<1, 2>>), (<<1, 1>>)>>,
      <<(<<0, 3>>), (<<1, 1>>)>> }

DistributionChoices ==
    { DiscreteDistributions(d[1], d[2], l[1], l[2]) : d \in DemandChoices, l \in LeadChoices }

ValidArgs ==
    /\ N >= 1
    /\ M >= 0
    /\ num_cycles >= 1
    /\ costs.holding_cost >= 0 /\ costs.shortage_cost >= 0
    /\ costs.unit_cost >= 0 /\ costs.ordering_cost >= 0
    /\ initial_state.on_hand >= 0
    /\ initial_state.outstanding_qty >= 0
    /\ initial_state.lead_remaining >= 0

NotCalled ==
    /\ stream = <<>>
    /\ rng_pos = 0
    /\ pc = "call"
    /\ num_days = 0 /\ on_hand = 0 /\ outstanding_qty = 0 /\ lead_remaining = 0
    /\ day = 0 /\ records = <<>> /\ total_cost = 0
    /\ audit = NoAudit
    /\ result = None
    /\ run = 1
    /\ previous = None

\* Initial states: any on_hand up to MaxInit; no order or an order of MaxInit
\* units, due at once or in MaxInit days.
InitialStateChoices ==
    { InitialState(a, b, c) : a \in 0..MaxInit, b \in {0, MaxInit}, c \in {0, MaxInit} }

\* The arguments of a call that meets the preconditions of simulate_policy.
Init ==
    /\ M \in 0..MaxM
    /\ N \in 1..MaxDays
    /\ num_cycles \in 1..MaxDays
    /\ N * num_cycles <= MaxDays
    /\ costs \in CostChoices
    /\ initial_state \in InitialStateChoices
    /\ distributions \in DistributionChoices
    /\ NotCalled

Next == Call \/ SimulateDay \/ Return

Spec == Init /\ [][Next]_vars

\* One call under the scheduling of a sequential program: a step that can be
\* taken is taken.
SpecFair == Init /\ [][Next]_vars /\ WF_vars(Next)

\* The same call made twice.
NextTwice == Next \/ CallAgain

SpecTwice == Init /\ [][NextTwice]_vars

\* Calls whose arguments break one precondition: a non-positive N, a negative
\* cost or a negative initial quantity.
NegativeCostChoices ==
    { CostParameters(-DEFAULT_HOLDING_COST, DEFAULT_SHORTAGE_COST,
                     DEFAULT_UNIT_COST, DEFAULT_ORDERING_COST),
      CostParameters(DEFAULT_HOLDING_COST, DEFAULT_SHORTAGE_COST,
                     -DEFAULT_UNIT_COST, DEFAULT_ORDERING_COST) }

NegativeInitialStateChoices ==
    { InitialState(-1, b, c) : b \in {0, MaxInit}, c \in {0, MaxInit} }
    \cup { InitialState(a, -1, c) : a \in 0..MaxInit, c \in {0, MaxInit} }
    \cup { InitialState(a, b, -1) : a \in 0..MaxInit, b \in {0, MaxInit} }

InitInvalid ==
    /\ M \in 0..MaxM
    /\ num_cycles \in 1..MaxDays
    /\ \/ /\ N \in -1..0
          /\ costs \in CostChoices
          /\ initial_state \in InitialStateChoices
       \/ /\ N \in 1..MaxDays
          /\ costs \in NegativeCostChoices
          /\ initial_state \in InitialStateChoices
       \/ /\ N \in 1..MaxDays
          /\ costs \in CostChoices
          /\ initial_state \in NegativeInitialStateChoices
    /\ N * num_cycles <= MaxDays
    /\ distributions \in DistributionChoices
    /\ NotCalled

SpecInvalid == InitInvalid /\ [][Next]_vars

\* The calls of the worked scenarios: demand fixed at 0, nothing outstanding
\* at the start, any of the lead-time distributions.
ZeroDemand == <<(<<0>>), (<<2>>)>>

InitScenario ==
    /\ M \in 0..ScenarioMaxM
    /\ N \in 1..MaxDays
    /\ num_cycles \in 1..MaxDays
    /\ N * num_cycles <= MaxDays
    /\ costs \in CostChoices
    /\ initial_state \in { InitialState(a, 0, 0) : a \in 0..ScenarioMaxOnHand }
    /\ distributions \in
         { DiscreteDistributions(ZeroDemand[1], ZeroDemand[2], l[1], l[2]) :
              l \in LeadChoices }
    /\ NotCalled

SpecScenario == InitScenario /\ [][Next]_vars

(**************************** properties ***********************************)
Simulated == pc # "call" /\ day > 0 /\ Len(records) = day
LastRecord == records[Len(records)]
Values(seq) == { seq[i] : i \in 1..Len(seq) }

\* C1: single-order invariant.  On every simulated day an order is placed
\* (OrderQty > 0, outstanding_qty and lead_remaining overwritten) only if
\* outstanding_qty was 0 at the ordering decision, that is after the day's
\* arrival step; an order in flight at the decision is left as it is: its
\* quantity is unchanged and its lead time is only counted down.
C1_SingleOrder ==
    Simulated =>
        /\ (audit.placed \/ LastRecord.OrderQty > 0 \/ LastRecord.LeadTimeNewOrder # None)
              => audit.outstanding_at_decision = 0
        /\ audit.outstanding_at_decision > 0 =>
              /\ LastRecord.OrderQty = 0
              /\ LastRecord.LeadTimeNewOrder = None
              /\ outstanding_qty = audit.outstanding_at_decision
              /\ lead_remaining \in {audit.lead_before, audit.lead_before - 1}

\* A review day with inventory below M on which the order in flight blocked
\* the order, followed by a day on which an order was placed.
C1_Witness ==
    /\ Simulated
    /\ \E i \in 1..Len(records) : \E j \in (i + 1)..Len(records) :
          /\ records[i].Day % N = 0
          /\ records[i].EndingInventory < M
          /\ records[i].OrderQty = 0
          /\ records[j].OrderQty > 0

\* C2: review-gating.  On every day of every run an order (OrderQty > 0, a
\* non-zero purchasing or ordering cost, a lead time of a new order) occurs
\* only when day mod N = 0.
C2_ReviewGating ==
    pc # "call" =>
        \A i \in 1..Len(records) :
            LET r == records[i]
            IN  (\/ r.OrderQty > 0
                 \/ r.PurchasingCost # 0
                 \/ r.OrderingCost # 0
                 \/ r.LeadTimeNewOrder # None) => r.Day % N = 0

\* A day that is no review day, with inventory below M and nothing in flight:
\* only the review gate withholds the order.
C2_Witness ==
    /\ Simulated
    /\ ~audit.is_review_day
    /\ LastRecord.Day % N # 0
    /\ LastRecord.EndingInventory < M
    /\ audit.outstanding_at_decision = 0
    /\ LastRecord.OrderQty = 0

\* C3: the ordering decision is complete and orders up to M.  On a review day
\* with EndingInventory < M and nothing outstanding after the arrival step an
\* order is placed: OrderQty = M - EndingInventory > 0, outstanding_qty is the
\* order quantity and lead_remaining is set to the sampled lead time (a value
\* of the lead-time distribution) before the day's decrement.  On a review
\* day with EndingInventory >= M no order is placed.
C3_OrderUpTo ==
    Simulated =>
        LET r == LastRecord
        IN  /\ (r.Day % N = 0 /\ r.EndingInventory < M
                  /\ audit.outstanding_at_decision = 0) =>
                 /\ r.OrderQty = M - r.EndingInventory
                 /\ r.OrderQty > 0
                 /\ outstanding_qty = r.OrderQty
                 /\ r.LeadTimeNewOrder # None
                 /\ Get(r.LeadTimeNewOrder) \in Values(distributions.lead_values)
                 /\ audit.lead_before_decrement = Get(r.LeadTimeNewOrder)
                 /\ lead_remaining =
                       IF Get(r.LeadTimeNewOrder) > 0 THEN Get(r.LeadTimeNewOrder) - 1
                                                      ELSE Get(r.LeadTimeNewOrder)
            /\ (r.Day % N = 0 /\ r.EndingInventory >= M) =>
                 /\ r.OrderQty = 0
                 /\ r.LeadTimeNewOrder = None
                 /\ r.PurchasingCost = 0 /\ r.OrderingCost = 0
                 /\ outstanding_qty = audit.outstanding_at_decision

\* A review day that ends exactly at M with nothing outstanding and places no
\* order, followed by a review day that places one.
C3_Witness ==
    /\ Simulated
    /\ M > 0
    /\ \E i \in 1..Len(records) : \E j \in (i + 1)..Len(records) :
          /\ records[i].Day % N = 0
          /\ records[i].EndingInventory = M
          /\ records[i].OrderQty = 0
          /\ records[i + 1].IncomingToday = 0
          /\ records[j].OrderQty = M - records[j].EndingInventory
          /\ records[j].OrderQty > 0

\* C4: lead-time timing.  An order placed on day d with sampled lead time
\* L >= 1 is received exactly once, at the start of day d + L (if that day is
\* simulated) and before that day's demand: IncomingToday is the order's
\* quantity and is part of OnHandStart; nothing is received on the days
\* between, and a later receipt belongs to a later order.  A lead time of 1
\* leaves LeadRemainingEnd = 0 on day d.
C4_LeadTimeTiming ==
    pc # "call" =>
        \A i \in 1..Len(records) :
            LET r == records[i]
            IN  (r.OrderQty > 0 /\ r.LeadTimeNewOrder # None /\ Get(r.LeadTimeNewOrder) >= 1) =>
                    LET due == i + Get(r.LeadTimeNewOrder)
                    IN  /\ \A j \in (i + 1)..Min(due - 1, Len(records)) :
                              records[j].IncomingToday = 0
                        /\ due <= Len(records) =>
                              /\ records[due].Day = r.Day + Get(r.LeadTimeNewOrder)
                              /\ records[due].IncomingToday = r.OrderQty
                              /\ records[due].OnHandStart =
                                    records[due - 1].EndingInventory + r.OrderQty
                        /\ \A j \in (due + 1)..Len(records) :
                              records[j].IncomingToday > 0 =>
                                  \E k \in due..(j - 1) : records[k].OrderQty > 0
                        /\ Get(r.LeadTimeNewOrder) = 1 => r.LeadRemainingEnd = 0

\* An order with a lead time of at least 2 that has been received.
C4_Witness ==
    /\ pc # "call"
    /\ \E i \in 1..Len(records) :
          /\ records[i].OrderQty > 0
          /\ records[i].LeadTimeNewOrder # None
          /\ Get(records[i].LeadTimeNewOrder) >= 2
          /\ i + Get(records[i].LeadTimeNewOrder) <= Len(records)
          /\ records[i + Get(records[i].LeadTimeNewOrder)].IncomingToday
                = records[i].OrderQty

\* C5, as claimed: ShortageQty = max(Demand - (OnHandStart + IncomingToday), 0)
\* on every day.
C5_ShortageAsClaimed ==
    pc # "call" =>
        \A i \in 1..Len(records) :
            LET r == records[i]
            IN  r.ShortageQty = Max(r.Demand - (r.OnHandStart + r.IncomingToday), 0)

\* C5, amended: OnHandStart is recorded after the arrival step and already
\* holds IncomingToday, so on every day
\* ShortageQty = max(Demand - OnHandStart, 0).
C5_ShortageCorrectness ==
    pc # "call" =>
        \A i \in 1..Len(records) :
            LET r == records[i]
            IN  r.ShortageQty = Max(r.Demand - r.OnHandStart, 0)

\* A day with a receipt and a shortage.
C5_Witness ==
    /\ Simulated
    /\ LastRecord.IncomingToday > 0
    /\ LastRecord.ShortageQty > 0
    /\ LastRecord.OnHandStart = audit.on_hand_before + LastRecord.IncomingToday

\* C6: non-negativity.  For valid arguments, on every day EndingInventory,
\* ShortageQty and Sales are >= 0, Sales <= Demand,
\* Sales <= OnHandStart + IncomingToday and Sales + ShortageQty = Demand; and
\* on_hand, outstanding_qty and lead_remaining are >= 0 in every state.
C6_NonNegativity ==
    /\ on_hand >= 0 /\ outstanding_qty >= 0 /\ lead_remaining >= 0
    /\ \A i \in 1..Len(records) :
          LET r == records[i]
          IN  /\ r.EndingInventory >= 0
              /\ r.ShortageQty >= 0
              /\ r.Sales >= 0
              /\ r.Sales <= r.Demand
              /\ r.Sales <= r.OnHandStart + r.IncomingToday
              /\ r.Sales + r.ShortageQty = r.Demand

\* A day on which part of the demand is sold and the rest is short.
C6_Witness ==
    /\ Simulated
    /\ LastRecord.Sales > 0
    /\ LastRecord.ShortageQty > 0
    /\ LastRecord.EndingInventory = 0

\* C7: cost additivity.  On every day TotalCostDay is the sum of the four
\* costs, HoldingCost = EndingInventory * holding_cost and
\* ShortageCost = ShortageQty * shortage_cost; the running total after day d
\* is the sum of TotalCostDay over days 1..d, the returned total_cost is the
\* sum over all recorded days and avg_cost_per_cycle = total_cost / num_cycles.
RECURSIVE SumTotalCostDay(_)
SumTotalCostDay(rs) ==
    IF rs = <<>> THEN 0 ELSE rs[1].TotalCostDay + SumTotalCostDay(Tail(rs))

C7_CostAdditivity ==
    /\ \A i \in 1..Len(records) :
          LET r == records[i]
          IN  /\ r.TotalCostDay =
                    r.HoldingCost + r.ShortageCost + r.PurchasingCost + r.OrderingCost
              /\ r.HoldingCost = r.EndingInventory * costs.holding_cost
              /\ r.ShortageCost = r.ShortageQty * costs.shortage_cost
    /\ total_cost = SumTotalCostDay(records)
    /\ pc = "done" =>
          /\ Get(result).total_cost = SumTotalCostDay(Get(result).df)
          /\ Get(result).avg_cost_per_cycle.den # 0
          /\ Get(result).avg_cost_per_cycle.num * num_cycles =
                Get(result).total_cost * Get(result).avg_cost_per_cycle.den

\* A returned run of two cycles with an order, a shortage and inventory held.
C7_Witness ==
    /\ pc = "done"
    /\ num_cycles >= 2
    /\ Get(result).total_cost > 0
    /\ \E i \in 1..Len(Get(result).df) : Get(result).df[i].OrderingCost > 0
    /\ \E i \in 1..Len(Get(result).df) : Get(result).df[i].ShortageCost > 0
    /\ \E i \in 1..Len(Get(result).df) : Get(result).df[i].HoldingCost > 0

\* C8: reproducibility.  A second call with the same arguments and the same
\* seed yields, day by day, the records of the first call, and returns the
\* same records, total_cost and avg_cost_per_cycle; it starts from the
\* initial state, not from what the first call left.
C8_Reproducibility ==
    run = 2 =>
        /\ pc = "loop" =>
              /\ Len(records) <= Len(Get(previous).df)
              /\ records = SubSeq(Get(previous).df, 1, Len(records))
              /\ day = 0 =>
                    /\ on_hand = initial_state.on_hand
                    /\ outstanding_qty = initial_state.outstanding_qty
                    /\ lead_remaining = initial_state.lead_remaining
                    /\ total_cost = 0
        /\ pc = "done" => result = previous

\* A second call that has returned after consuming demand and lead-time draws.
C8_Witness ==
    /\ run = 2
    /\ pc = "done"
    /\ result = previous
    /\ Len(stream) >= 4
    /\ \E i \in 1..Len(Get(result).df) : Get(result).df[i].OrderQty > 0

\* C9: fixed horizon and completion.  A run is never stuck before it returns,
\* simulates one day per step and returns after exactly N * num_cycles days,
\* whatever was sampled; the result holds N * num_cycles records with
\* Day = 1, 2, ... in order and Cycle = ((Day - 1) div N) + 1, so that cycle c
\* holds the N days (c-1)N+1 .. cN, and the last day of a cycle is its only
\* review day.
C9_FixedHorizon ==
    /\ pc = "done" \/ ENABLED Next
    /\ pc # "call" =>
          /\ num_days = N * num_cycles
          /\ day <= num_days
          /\ Len(records) = day
          /\ \A i \in 1..Len(records) :
                /\ records[i].Day = i
                /\ records[i].Cycle = ((i - 1) \div N) + 1
                /\ records[i].Cycle \in 1..num_cycles
                /\ (records[i].Cycle - 1) * N + 1 <= i
                /\ i <= records[i].Cycle * N
          /\ day > 0 => (audit.is_review_day <=> day = LastRecord.Cycle * N)
    /\ pc = "done" =>
          /\ day = N * num_cycles
          /\ Len(Get(result).df) = N * num_cycles
          /\ Get(result).df = records
          /\ \A c \in 1..num_cycles :
                { i \in 1..Len(Get(result).df) : Get(result).df[i].Cycle = c }
                    = ((c - 1) * N + 1)..(c * N)

\* A returned run of two cycles of two days.
C9_Witness ==
    /\ pc = "done"
    /\ N >= 2
    /\ num_cycles >= 2
    /\ Len(Get(result).df) = N * num_cycles

\* C10: eager rejection.  A call with a non-positive N, a negative cost or a
\* negative initial quantity simulates no day and returns no result.
C10_EagerRejection ==
    ~ValidArgs => (day = 0 /\ records = <<>> /\ result = None)

\* The arguments of the worked scenarios: M = 7, demand fixed at 0, lead time
\* fixed at 1, on_hand = 5 and nothing outstanding, for a review period n and
\* c cycles.
ScenarioArgs(n, c) ==
    /\ M = 7 /\ N = n /\ num_cycles = c
    /\ distributions.demand_values = <<0>>
    /\ distributions.lead_values = <<1>>
    /\ initial_state = InitialState(5, 0, 0)

\* C11, as claimed: in the two-day run with N = 2 and num_cycles = 1 the
\* order of 2 units is placed on day 1 and received on day 2, which has
\* IncomingToday = 2 and OnHandStart = 7.
C11_ScenarioCAsClaimed ==
    (ScenarioArgs(2, 1) /\ pc = "done") =>
        /\ Len(Get(result).df) = 2
        /\ Get(result).df[1].OrderQty = 2
        /\ Get(result).df[2].IncomingToday = 2
        /\ Get(result).df[2].OnHandStart = 7

\* C11, amended: in the two-day run with N = 1 and num_cycles = 2 (scenario
\* B run for a second day) the order of 2 units is placed on day 1 and the
\* arrival step of day 2 adds them to on_hand before the demand: day 2 has
\* IncomingToday = 2 and OnHandStart = 7.  With N = 2 day 1 is no review day.
C11_ScenarioC ==
    /\ (ScenarioArgs(1, 2) /\ pc = "done") =>
          /\ Len(Get(result).df) = 2
          /\ Get(result).df[1].OrderQty = 2
          /\ Get(result).df[1].LeadTimeNewOrder = Some(1)
          /\ Get(result).df[2].IncomingToday = 2
          /\ Get(result).df[2].OnHandStart = 7
          /\ Get(result).df[2].Sales = 0
          /\ Get(result).df[2].EndingInventory = 7
    /\ (ScenarioArgs(2, 1) /\ pc = "done") =>
          /\ Get(result).df[1].OrderQty = 0
          /\ Get(result).df[2].OrderQty = 2
          /\ Get(result).df[2].IncomingToday = 0
          /\ Get(result).df[2].OnHandStart = 5

\* The two-day run of scenario B has returned.
C11_Witness ==
    /\ ScenarioArgs(1, 2)
    /\ pc = "done"
    /\ Get(result).df[2].IncomingToday = 2

\* C12: scenario B.  With M = 7, N = 1, num_cycles = 1, demand fixed at 0,
\* lead time fixed at 1, on_hand = 5 and nothing outstanding, day 1 places an
\* order with OrderQty = 2, PurchasingCost = 2 * unit_cost,
\* OrderingCost = ordering_cost, LeadTimeNewOrder = 1 and
\* LeadRemainingEnd = 0, and
\* total_cost = 5 * holding_cost + 2 * unit_cost + ordering_cost.
C12_ScenarioB ==
    (ScenarioArgs(1, 1) /\ pc = "done") =>
        LET r == Get(result).df[1]
        IN  /\ Len(Get(result).df) = 1
            /\ r.OnHandStart = 5 /\ r.Demand = 0 /\ r.EndingInventory = 5
            /\ r.OrderQty = 2
            /\ r.PurchasingCost = 2 * costs.unit_cost
            /\ r.OrderingCost = costs.ordering_cost
            /\ r.LeadTimeNewOrder = Some(1)
            /\ r.LeadRemainingEnd = 0
            /\ r.HoldingCost = 5 * costs.holding_cost
            /\ Get(result).total_cost =
                  5 * costs.holding_cost + 2 * costs.unit_cost + costs.ordering_cost

\* Scenario B has returned, with non-zero costs.
C12_Witness ==
    /\ ScenarioArgs(1, 1)
    /\ pc = "done"
    /\ Get(result).df[1].OrderQty = 2
    /\ costs.unit_cost > 0 /\ costs.ordering_cost > 0 /\ costs.holding_cost > 0

\* C13: zero demand.  When the demand distribution is the single value 0,
\* every day has Demand, Sales and ShortageQty 0; EndingInventory never
\* decreases from one day to the next and grows only by what is received; and
\* a day that starts with on_hand >= M and nothing outstanding receives
\* nothing, places no order and ends with the same inventory.
C13_ZeroDemand ==
    (distributions.demand_values = <<0>> /\ pc # "call") =>
        /\ \A i \in 1..Len(records) :
              /\ records[i].Demand = 0
              /\ records[i].Sales = 0
              /\ records[i].ShortageQty = 0
              /\ records[i].EndingInventory =
                    (IF i = 1 THEN initial_state.on_hand
                              ELSE records[i - 1].EndingInventory)
                    + records[i].IncomingToday
              /\ i > 1 => records[i].EndingInventory >= records[i - 1].EndingInventory
        /\ (Simulated /\ audit.on_hand_before >= M /\ audit.outstanding_before = 0) =>
              /\ LastRecord.IncomingToday = 0
              /\ LastRecord.EndingInventory = audit.on_hand_before
              /\ LastRecord.OrderQty = 0
              /\ LastRecord.LeadTimeNewOrder = None
              /\ outstanding_qty = 0
              /\ on_hand = audit.on_hand_before

\* A zero-demand run in which an order placed by the engine brought the
\* inventory to M, after which a review day passed without an order.
C13_Witness ==
    /\ distributions.demand_values = <<0>>
    /\ Simulated
    /\ M > 0
    /\ \E i \in 1..Len(records) : \E j \in (i + 1)..(Len(records) - 1) :
          /\ records[i].OrderQty > 0
          /\ records[j].IncomingToday = records[i].OrderQty
          /\ records[j].EndingInventory >= M
    /\ audit.is_review_day
    /\ audit.on_hand_before >= M
    /\ audit.outstanding_before = 0
    /\ LastRecord.OrderQty = 0

\* C14: carry-forward and arrival before demand.  OnHandStart of day 1 is the
\* initial on_hand plus IncomingToday, and of every later day the previous
\* day's EndingInventory plus IncomingToday.  IncomingToday is non-zero exactly
\* when lead_remaining = 0 and outstanding_qty > 0 at the start of the day; it
\* is then the whole outstanding quantity, outstanding_qty is reset to 0 before
\* the ordering decision, and the received units count for the day's sales.
C14_CarryForward ==
    pc # "call" =>
        /\ \A i \in 1..Len(records) :
              records[i].OnHandStart =
                  (IF i = 1 THEN initial_state.on_hand
                            ELSE records[i - 1].EndingInventory)
                  + records[i].IncomingToday
        /\ Simulated =>
              LET r == LastRecord
              IN  /\ audit.on_hand_before =
                        (IF day = 1 THEN initial_state.on_hand
                                    ELSE records[day - 1].EndingInventory)
                  /\ on_hand = r.EndingInventory
                  /\ (r.IncomingToday # 0) <=>
                        (audit.lead_before = 0 /\ audit.outstanding_before > 0)
                  /\ r.IncomingToday # 0 =>
                        /\ r.IncomingToday = audit.outstanding_before
                        /\ audit.outstanding_at_decision = 0
                        /\ r.OnHandStart = audit.on_hand_before + r.IncomingToday
                  /\ r.IncomingToday = 0 =>
                        audit.outstanding_at_decision = audit.outstanding_before
                  /\ r.Sales = Min(r.OnHandStart, r.Demand)
                  /\ r.EndingInventory = r.OnHandStart - r.Sales

\* A day after the first that starts with an empty stock, receives an order
\* and sells from it.
C14_Witness ==
    /\ Simulated
    /\ day > 1
    /\ audit.on_hand_before = 0
    /\ LastRecord.IncomingToday > 0
    /\ LastRecord.Sales > 0

\* C15: order-cost bookkeeping.  On every day either an order is placed, with
\* OrderQty > 0, a LeadTimeNewOrder, PurchasingCost = OrderQty * unit_cost and
\* OrderingCost = ordering_cost, or none is placed, with OrderQty = 0, no
\* LeadTimeNewOrder and both costs 0; on a day without an order the ordering
\* step leaves outstanding_qty and lead_remaining as they were.
C15_OrderCostBookkeeping ==
    pc # "call" =>
        /\ \A i \in 1..Len(records) :
              LET r == records[i]
              IN  \/ /\ r.OrderQty > 0
                     /\ r.LeadTimeNewOrder # None
                     /\ r.PurchasingCost = r.OrderQty * costs.unit_cost
                     /\ r.OrderingCost = costs.ordering_cost
                  \/ /\ r.OrderQty = 0
                     /\ r.LeadTimeNewOrder = None
                     /\ r.PurchasingCost = 0
                     /\ r.OrderingCost = 0
        /\ Simulated =>
              /\ audit.placed <=> LastRecord.OrderQty > 0
              /\ ~audit.placed =>
                    /\ outstanding_qty = audit.outstanding_at_decision
                    /\ audit.lead_before_decrement = audit.lead_before

\* A run with two orders of different quantities, which pay the same fee, and
\* a day without an order.
C15_Witness ==
    /\ pc # "call"
    /\ costs.ordering_cost > 0
    /\ \E i, j, k \in 1..Len(records) :
          /\ records[i].OrderQty > 0
          /\ records[j].OrderQty > records[i].OrderQty
          /\ records[i].OrderingCost = records[j].OrderingCost
          /\ records[k].OrderQty = 0

\* C16: call order on the random stream.  Every day draws exactly one demand
\* value, before any lead-time draw of that day; a lead time is drawn exactly
\* once on a day that places an order and never on another day.  So the draws
\* made up to the end of day d number d plus the orders placed, the demand of
\* day i is the draw at position i + (orders before day i), the lead time of
\* an order of day i the draw after it, and a returned run has made
\* N * num_cycles + (orders placed) draws.
OrdersBefore(i) == Cardinality({ j \in 1..(i - 1) : records[j].OrderQty > 0 })

C16_DrawOrder ==
    (pc # "call" /\ run = 1) =>
        /\ rng_pos = day + OrdersBefore(day + 1)
        /\ Len(stream) = rng_pos
        /\ \A i \in 1..Len(records) :
              LET r == records[i]
                  k == i + OrdersBefore(i)
              IN  /\ r.Demand = SampleFromDiscrete(distributions.demand_values,
                                                   distributions.demand_probs, stream[k])
                  /\ r.OrderQty > 0 =>
                        r.LeadTimeNewOrder =
                            Some(SampleFromDiscrete(distributions.lead_values,
                                                    distributions.lead_probs, stream[k + 1]))
                  /\ r.OrderQty = 0 => r.LeadTimeNewOrder = None
        /\ Simulated =>
              /\ audit.draws[1] = "demand"
              /\ Len(audit.draws) = (IF audit.placed THEN 2 ELSE 1)
              /\ audit.placed => audit.draws[2] = "lead"
        /\ pc = "done" => rng_pos = N * num_cycles + OrdersBefore(Len(records) + 1)

\* A returned run in which a day with an order is followed by a day without
\* one and a second order, and the two draws of an order day differ.
C16_Witness ==
    /\ pc = "done"
    /\ \E i \in 1..Len(records) : \E j \in (i + 2)..Len(records) :
          /\ records[i].OrderQty > 0
          /\ records[i + 1].OrderQty = 0
          /\ records[j].OrderQty > 0
          /\ stream[i + OrdersBefore(i)] # stream[i + OrdersBefore(i) + 1]
    /\ rng_pos = N * num_cycles + 2

\* C17: inventory position.  In every state on_hand + outstanding_qty is at
\* most max(M, initial on_hand + initial outstanding_qty); at the end of a day
\* that places an order EndingInventory + outstanding_qty = M; and a day that
\* receives an order placed by the engine starts with at most M on hand.
C17_InventoryPosition ==
    pc # "call" =>
        /\ on_hand + outstanding_qty
              <= Max(M, initial_state.on_hand + initial_state.outstanding_qty)
        /\ (Simulated /\ LastRecord.OrderQty > 0) =>
              /\ LastRecord.EndingInventory + outstanding_qty = M
              /\ on_hand + outstanding_qty = M
        /\ \A j \in 1..Len(records) :
              (records[j].IncomingToday > 0
                 /\ \E i \in 1..(j - 1) : records[i].OrderQty > 0)
              => records[j].OnHandStart <= M

\* A run that started above M, sold down, ordered and received the order.
C17_Witness ==
    /\ Simulated
    /\ initial_state.on_hand + initial_state.outstanding_qty > M
    /\ \E i \in 1..Len(records) : \E j \in (i + 1)..Len(records) :
          /\ records[i].OrderQty > 0
          /\ records[j].IncomingToday = records[i].OrderQty
          /\ records[j].OnHandStart <= M

\* C18: the single-order guard never blocks when lead times fit in a review
\* period.  If every lead-time value L has 1 <= L <= N and an initial
\* outstanding order arrives by day N (its lead_remaining is below N), then on
\* every review day outstanding_qty = 0 at the ordering decision, so that an
\* order is placed on every review day with EndingInventory < M.
LeadTimesFit == \A L \in Values(distributions.lead_values) : 1 <= L /\ L <= N
InitialOrderArrivesByN ==
    initial_state.outstanding_qty = 0 \/ initial_state.lead_remaining + 1 <= N

C18_GuardNeverBlocks ==
    (LeadTimesFit /\ InitialOrderArrivesByN /\ Simulated /\ audit.is_review_day) =>
        /\ audit.outstanding_at_decision = 0
        /\ LastRecord.EndingInventory < M =>
              /\ LastRecord.OrderQty = M - LastRecord.EndingInventory
              /\ LastRecord.OrderQty > 0

\* Lead times of up to N = 2 days: an order of a review day with lead time N
\* is received on the next review day, which places the next order.
C18_Witness ==
    /\ LeadTimesFit
    /\ InitialOrderArrivesByN
    /\ Simulated
    /\ N >= 2
    /\ audit.is_review_day
    /\ day > N
    /\ records[day - N].OrderQty > 0
    /\ records[day - N].LeadTimeNewOrder = Some(N)
    /\ LastRecord.IncomingToday = records[day - N].OrderQty
    /\ LastRecord.OrderQty > 0

\* C18, the converse: with a lead-time value above N, a review day with
\* EndingInventory < M on which the engine's own order in flight withholds the
\* order is reachable.
C18_BlockedReviewDay ==
    /\ \E L \in Values(distributions.lead_values) : L > N
    /\ initial_state.outstanding_qty = 0
    /\ Simulated
    /\ audit.is_review_day
    /\ LastRecord.EndingInventory < M
    /\ audit.outstanding_at_decision > 0
    /\ LastRecord.OrderQty = 0

\* C19: no same-day delivery.  An order is never received on the day it is
\* placed: at the end of that day the whole OrderQty is outstanding.  An order
\* with sampled lead time 0 takes the path of lead time 1: lead_remaining is not
\* decremented, LeadRemainingEnd = 0 on the day of the order, and the order is
\* received at the start of the next day.  An order with lead time L is received
\* on day d + Max(L, 1) and on no earlier day.
ArrivalDelay(L) == Max(L, 1)

C19_NoSameDayDelivery ==
    /\ (Simulated /\ LastRecord.OrderQty > 0) =>
          /\ outstanding_qty = LastRecord.OrderQty
          /\ lead_remaining = LastRecord.LeadRemainingEnd
          /\ Get(LastRecord.LeadTimeNewOrder) \in {0, 1} =>
                LastRecord.LeadRemainingEnd = 0
          /\ Get(LastRecord.LeadTimeNewOrder) = 0 =>
                audit.lead_before_decrement = 0
    /\ \A i \in 1..Len(records) :
          records[i].OrderQty > 0 =>
              LET d == i + ArrivalDelay(Get(records[i].LeadTimeNewOrder))
              IN  /\ \A j \in (i + 1)..Min(d - 1, Len(records)) :
                        records[j].IncomingToday = 0
                  /\ d <= Len(records) =>
                        records[d].IncomingToday = records[i].OrderQty

\* An order with sampled lead time 0 is received on the next day.
C19_Witness ==
    \E i \in 1..(Len(records) - 1) :
        /\ records[i].OrderQty > 0
        /\ records[i].LeadTimeNewOrder = Some(0)
        /\ records[i].LeadRemainingEnd = 0
        /\ records[i + 1].IncomingToday = records[i].OrderQty

\* C20: unit conservation.  At the end of every day d,
\*   initial on_hand + sum of IncomingToday over 1..d
\*       = sum of Sales over 1..d + EndingInventory(d), and
\*   initial outstanding_qty + sum of OrderQty over 1..d
\*       = sum of IncomingToday over 1..d + outstanding_qty at the end of day d.
RECURSIVE SumIncoming(_)
SumIncoming(d) == IF d = 0 THEN 0 ELSE records[d].IncomingToday + SumIncoming(d - 1)
RECURSIVE SumSales(_)
SumSales(d) == IF d = 0 THEN 0 ELSE records[d].Sales + SumSales(d - 1)
RECURSIVE SumOrderQty(_)
SumOrderQty(d) == IF d = 0 THEN 0 ELSE records[d].OrderQty + SumOrderQty(d - 1)

C20_UnitConservation ==
    /\ \A d \in 1..Len(records) :
          initial_state.on_hand + SumIncoming(d) = SumSales(d) + records[d].EndingInventory
    /\ Simulated =>
          /\ initial_state.outstanding_qty + SumOrderQty(day)
                = SumIncoming(day) + outstanding_qty
          /\ on_hand = LastRecord.EndingInventory

\* The initial order and an order of the engine have both been received, units
\* have been sold, and a further order is outstanding.
C20_Witness ==
    /\ Simulated
    /\ initial_state.outstanding_qty > 0
    /\ SumIncoming(day) > initial_state.outstanding_qty
    /\ SumSales(day) > 0
    /\ outstanding_qty > 0

====
